---------------------------- MODULE Spec2Model ----------------------------
(***************************************************************************)
(* A model of HAProxy's trace filter (src/flt_trace.c): the hex dumpers,   *)
(* the message and data hooks with their randomized partial consumption,   *)
(* and the parser of the "trace" filter declaration.                       *)
(*                                                                         *)
(* Bytes and characters are integers 0..255.  What the filter writes to    *)
(* stderr is a sequence of character codes (the hex dump) and a sequence   *)
(* of records (the STRM_TRACE lines).                                      *)
(***************************************************************************)
EXTENDS Integers, Sequences, FiniteSets, TLC

VARIABLES
    conf,      \* struct trace_config of the filter the hooks run for
    strm,      \* the stream as a hook sees it: channel, buffer, offsets, message
    call,      \* the last hook call: arguments, result, wake-ups, output
    ist,       \* the byte run handed to trace_hexdump (specification SpecDump)
    cfg        \* parse_trace_flt: arguments, declaration, heap, result

vars == <<conf, strm, call, ist, cfg>>

(***************************************************************************)
(* Bounds of the model.                                                    *)
(***************************************************************************)
MaxIstLen == 34      \* longest byte run dumped by SpecDump (three rows)
MaxBufSize == 3      \* largest buffer storage of a raw channel
MaxData == 2         \* most DATA blocks of a structured message
MaxBlkSz == 2        \* largest DATA block
MaxArgs == 4         \* most words after the "trace" keyword

(***************************************************************************)
(* Small helpers.                                                          *)
(***************************************************************************)
Min(a, b) == IF a < b THEN a ELSE b

RECURSIVE Flatten(_)
Flatten(qq) == IF qq = <<>> THEN <<>> ELSE Head(qq) \o Flatten(Tail(qq))

(***************************************************************************)
(* printf conversions, by what they write.                                 *)
(***************************************************************************)
\* one lower-case hexadecimal digit, as its character code
HexDigit(d) == IF d < 10 THEN 48 + d ELSE 87 + d

\* "%02x" of an unsigned char
Hex2(b) == <<HexDigit((b \div 16) % 16), HexDigit(b % 16)>>

\* "%06x" of a row offset
Hex6(i) == <<HexDigit((i \div 1048576) % 16), HexDigit((i \div 65536) % 16),
             HexDigit((i \div 4096) % 16), HexDigit((i \div 256) % 16),
             HexDigit((i \div 16) % 16), HexDigit(i % 16)>>

\* isprint() in the C locale the proxy runs in; a byte above 0x7f reaches it
\* as a negative char, for which the C library's table answers false.
isprint(c) == c >= 32 /\ c <= 126

(***************************************************************************)
(* trace_hexdump: the loop over i of lines 94-112, one iteration at a time.*)
(***************************************************************************)
\* the ASCII column written when i % 16 = 15: j from i-15 while j <= i and j < len
AsciiColumn(p, i) ==
    LET last == Min(i, Len(p) - 1)
        n == IF last >= i - 15 THEN last - (i - 15) + 1 ELSE 0
    IN  [k \in 1..n |-> IF isprint(p[i - 15 + k]) THEN p[i - 15 + k] ELSE 46]

\* the cell of index i: the byte in hex, or three blanks past the end
HexCellZeroPad(p, i) == IF i < Len(p) THEN Hex2(p[i + 1]) \o <<32>> ELSE <<48, 48, 32>>

HexCell(p, i) == IF i < Len(p) THEN Hex2(p[i + 1]) \o <<32>> ELSE <<32, 32, 32>>

\* what one iteration of the loop writes
HexdumpStep(p, i) ==
    (IF i % 16 = 0 THEN <<9, 48, 120>> \o Hex6(i) \o <<58, 32>>
     ELSE IF i % 8 = 0 THEN <<32, 32>>
     ELSE <<>>)
    \o HexCell(p, i)
    \o (IF i % 16 = 15
        THEN <<32, 32, 124>> \o AsciiColumn(p, i) \o <<124, 10>>
        ELSE <<>>)

RECURSIVE HexdumpLoop(_, _, _)
HexdumpLoop(p, i, bound) ==
    IF i < bound THEN HexdumpStep(p, i) \o HexdumpLoop(p, i + 1, bound) ELSE <<>>

trace_hexdump(p) ==
    LET padding == IF Len(p) % 16 # 0 THEN 16 - (Len(p) % 16) ELSE 0
    IN  HexdumpLoop(p, 0, Len(p) + padding)

(***************************************************************************)
(* The buffer of a channel (struct buffer): area is the storage, head the  *)
(* offset of the first byte of data in it, data the number of bytes held.  *)
(* The accessors are those of common/buf.h as the filter uses them.        *)
(***************************************************************************)
b_size(b) == Len(b.area)

b_data(b) == b.data

\* b_peek: the storage offset of the byte at <ofs> from the head, wrapped
b_peek(b, ofs) ==
    IF b.head + ofs >= b_size(b) THEN b.head + ofs - b_size(b) ELSE b.head + ofs

\* b_contig_data: bytes readable from offset <start> without wrapping
b_contig_data(b, start) == Min(b_size(b) - b_peek(b, start), b_data(b) - start)

\* the bytes a read of storage offset <at> can return: the byte stored there,
\* or whatever lies past the end of the storage when <at> is outside of it
MemByte(b, at) ==
    IF at < b_size(b) THEN {b.area[at + 1]} ELSE {0, 255}

(***************************************************************************)
(* trace_raw_hexdump: the two memcpy of lines 126-127 fill p[0..len-1].    *)
(***************************************************************************)
\* where byte k (0-based) of p is copied from
RawSource(b, len, out, k) ==
    LET block1 == Min(len, b_contig_data(b, out))
    IN  IF k < block1 THEN b.head + k ELSE k - block1

\* every content p can get
RawCopies(b, len, out) ==
    {p \in [1..len -> {0, 255} \cup {b.area[i] : i \in 1..b_size(b)}] :
        \A k \in 1..len : p[k] \in MemByte(b, RawSource(b, len, out, k - 1))}

\* the texts trace_raw_hexdump(buf, len, out) can write
trace_raw_hexdump(b, len, out) == {trace_hexdump(p) : p \in RawCopies(b, len, out)}

(***************************************************************************)
(* The structured message (struct htx) as a sequence of blocks.  A block   *)
(* is [type, n, v]: its type, its name (headers only) and its value.       *)
(***************************************************************************)
\* htx_get_blksz: name and value for a header, one byte for an end marker
htx_get_blksz(blk) ==
    CASE blk.type = "HDR" -> Len(blk.n) + Len(blk.v)
      [] blk.type \in {"EOH", "EOM"} -> 1
      [] OTHER -> Len(blk.v)

\* htx_get_blk_value
htx_get_blk_value(blk) == blk.v

\* v.len -= offset in size_t, then the cap of lines 151-152: a difference
\* that wraps below zero is larger than any unsigned int len
ValueLenInWindow(vlen, offset, len) ==
    IF offset > vlen THEN len ELSE Min(vlen - offset, len)

(***************************************************************************)
(* trace_htx_hexdump: the loop of lines 136-156 over the blocks from       *)
(* index i, with the current values of the locals offset and len.          *)
(***************************************************************************)
RECURSIVE HtxDumpLoop(_, _, _, _)
HtxDumpLoop(htx, i, offset, len) ==
    IF i > Len(htx) \/ len = 0 THEN <<>>
    ELSE LET blk == htx[i]
             sz == htx_get_blksz(blk)
             v == htx_get_blk_value(blk)
             vlen == ValueLenInWindow(Len(v), offset, len)
         IN  IF offset >= sz
             THEN HtxDumpLoop(htx, i + 1, offset - sz, len)
             ELSE (IF blk.type = "DATA"
                   THEN <<SubSeq(v, offset + 1, offset + vlen)>>
                   ELSE <<>>)
                  \o HtxDumpLoop(htx, i + 1, 0, len - vlen)

\* the byte runs trace_htx_hexdump(htx, offset, len) hands to trace_hexdump
HtxDumpRuns(htx, offset, len) == HtxDumpLoop(htx, 1, offset, len)

trace_htx_hexdump(htx, offset, len) ==
    Flatten([k \in 1..Len(HtxDumpRuns(htx, offset, len)) |->
                trace_hexdump(HtxDumpRuns(htx, offset, len)[k])])

(***************************************************************************)
(* trace_http_payload, lines 473-488: the DATA bytes counted from <off>,   *)
(* from block i on, <data> being what is already counted.                  *)
(***************************************************************************)
RECURSIVE PayloadDataLoop(_, _, _, _, _)
PayloadDataLoop(htx, i, off, data, len) ==
    IF i > Len(htx) THEN data
    ELSE IF htx[i].type # "DATA" THEN data
    ELSE IF off >= htx_get_blksz(htx[i])
    THEN PayloadDataLoop(htx, i + 1, off - htx_get_blksz(htx[i]), data, len)
    ELSE IF data + htx_get_blksz(htx[i]) - off > len THEN len
    ELSE PayloadDataLoop(htx, i + 1, 0, data + htx_get_blksz(htx[i]) - off, len)

\* random() % (ret+1)
RandomUpTo(r, ret) == r % (ret + 1)

(***************************************************************************)
(* The channel: c_adv and c_rew move its output offset; FLT_NXT and        *)
(* FLT_FWD are the filter's offsets in its input.                          *)
(***************************************************************************)
co_data(s) == s.output

ci_data(s) == b_data(s.buf) - s.output

c_adv(s, adv) == [s EXCEPT !.output = s.output + adv]

c_rew(s, adv) == [s EXCEPT !.output = s.output - adv]

FLT_NXT(s) == s.nxt

FLT_FWD(s) == s.fwd

(***************************************************************************)
(* The streams a hook can be called for.  A raw stream (TCP, legacy HTTP)  *)
(* has its data in a ring buffer, output first; a structured (HTX) stream  *)
(* has its message as blocks.  The host keeps                              *)
(*     fwd <= nxt <= ci_data = data - output.                              *)
(***************************************************************************)
\* the byte stored at offset i of a buffer's storage: every offset its own,
\* printable or not
AreaByte(i) == IF i % 3 = 0 THEN 65 + i ELSE IF i % 3 = 1 THEN 1 + i ELSE 200 + i

Area(size) == [i \in 1..size |-> AreaByte(i - 1)]

NoBuffer == [area |-> <<>>, head |-> 0, data |-> 0]

RawStreams ==
    {[htx_strm |-> FALSE,
      buf |-> [area |-> Area(q[1]), head |-> q[2], data |-> q[3]],
      output |-> q[4], fwd |-> q[5], nxt |-> q[6], htx |-> <<>>] :
        q \in {x \in (1..MaxBufSize) \X (0..MaxBufSize) \X (0..MaxBufSize)
                      \X (0..MaxBufSize) \X (0..MaxBufSize) \X (0..MaxBufSize) :
                  /\ x[2] < x[1]
                  /\ x[3] <= x[1]
                  /\ x[4] <= x[3]
                  /\ x[5] <= x[6]
                  /\ x[6] <= x[3] - x[4]}}

\* the bytes of DATA block k: every byte its own
DataBlk(k, size) == [type |-> "DATA", n |-> <<>>, v |-> [j \in 1..size |-> 64 + 8 * k + j]]

StartLine == [type |-> "SL", n |-> <<>>, v |-> <<71>>]

Header == [type |-> "HDR", n |-> <<104, 72>>, v |-> <<118>>]

EndOfHeaders == [type |-> "EOH", n |-> <<>>, v |-> <<>>]

EndOfMessage == [type |-> "EOM", n |-> <<>>, v |-> <<>>]

\* the head of a message: absent once sent, else a start line, headers, EOH
HeadBlocks == {<<>>, <<StartLine, EndOfHeaders>>, <<StartLine, Header, EndOfHeaders>>}

\* the DATA blocks of a body, by their sizes
BodyBlocks ==
    {[k \in 1..Len(z) |-> DataBlk(k, z[k])] :
        z \in UNION {[1..n -> 1..MaxBlkSz] : n \in 0..MaxData}}

TailBlocks == {<<>>, <<EndOfMessage>>}

HtxStreams ==
    {[htx_strm |-> TRUE, buf |-> NoBuffer, output |-> 0, fwd |-> 0, nxt |-> 0,
      htx |-> h \o b \o t] : h \in HeadBlocks, b \in BodyBlocks, t \in TailBlocks}

\* htx->data: the size of all the blocks
RECURSIVE HtxSize(_)
HtxSize(htx) == IF htx = <<>> THEN 0 ELSE htx_get_blksz(Head(htx)) + HtxSize(Tail(htx))

ConfSet ==
    [name : {"TRACE"}, rand_parsing : {0, 1}, rand_forwarding : {0, 1}, hexdump : {0, 1}]

\* random() returns any value of 0..RAND_MAX; the hooks only use it modulo
\* n+1, so the values up to n+1 stand for all: every residue, and a wrap
RandomValues(n) == 0..(n + 1)

\* a hook runs to completion on the state the host calls it with; a
\* behaviour is one such call
Idle == call.fn = "none"

NoCall ==
    [fn |-> "none", offset |-> 0, offered |-> 0, amount |-> 0, ret |-> 0,
     wakeups |-> 0, lines |-> <<>>, dump |-> <<>>]

NoCfg == [pc |-> "idle"]

Init ==
    /\ conf \in ConfSet
    /\ strm \in RawStreams \cup HtxStreams
    /\ call = NoCall
    /\ ist = <<>>
    /\ cfg = NoCfg

\* task_wakeup(s->task, TASK_WOKEN_MSG) is called when <cond> holds
WakeupNever(cond) == 0

WakeupAlways(cond) == 1

WakeupIf(cond) == IF cond THEN 1 ELSE 0

(***************************************************************************)
(* trace_http_payload(s, filter, msg, offset, len), lines 460-507.         *)
(***************************************************************************)
\* lines 490-492: the amount drawn, kept unless it exceeds the DATA counted
PayloadNoCap(amount, data, len) == amount

PayloadCap(amount, data, len) == IF amount > data THEN len ELSE amount

HttpPayloadRet(c, htx, offset, len, r) ==
    IF len # 0 /\ c.rand_forwarding # 0
    THEN PayloadCap(RandomUpTo(r, len), PayloadDataLoop(htx, 1, offset, 0, len), len)
    ELSE len

trace_http_payload ==
    /\ Idle
    /\ strm.htx_strm
    /\ \E offset \in 0..HtxSize(strm.htx) :
         \E len \in 0..(HtxSize(strm.htx) - offset) :
         \E r \in RandomValues(len) :
           LET ret == HttpPayloadRet(conf, strm.htx, offset, len, r)
           IN  call' = [fn |-> "trace_http_payload", offset |-> offset,
                        offered |-> len,
                        amount |-> IF len # 0 /\ conf.rand_forwarding # 0
                                   THEN RandomUpTo(r, len) ELSE len,
                        ret |-> ret,
                        wakeups |-> WakeupIf(ret # len),
                        lines |-> <<<<"trace_http_payload", offset, len, ret>>>>,
                        dump |-> IF conf.hexdump # 0
                                 THEN trace_htx_hexdump(strm.htx, offset, len)
                                 ELSE <<>>]
    /\ UNCHANGED <<conf, strm, ist, cfg>>

(***************************************************************************)
(* trace_http_data(s, filter, msg), lines 509-529.  msg->chunk_len and     *)
(* msg->next come with the call; the host has msg->next <= FLT_NXT and     *)
(* FLT_NXT within the chunk.                                               *)
(***************************************************************************)
ConsumeAbove(c, avail, r) ==
    IF avail # 0 /\ c.rand_parsing # 0 THEN r % (avail + 2) ELSE avail

ConsumeRet(c, avail, r) ==
    IF avail # 0 /\ c.rand_parsing # 0 THEN RandomUpTo(r, avail) ELSE avail

trace_http_data ==
    /\ Idle
    /\ ~strm.htx_strm
    /\ \E next \in 0..FLT_NXT(strm), chunk_len \in 0..(ci_data(strm) + 1),
          r \in RandomValues(ci_data(strm)) :
         /\ chunk_len + next >= FLT_NXT(strm)
         /\ LET avail == Min(chunk_len + next, ci_data(strm)) - FLT_NXT(strm)
                ret == ConsumeRet(conf, avail, r)
            IN  call' = [fn |-> "trace_http_data", offset |-> next,
                         offered |-> avail, amount |-> ret, ret |-> ret,
                         wakeups |-> WakeupIf(ret # avail),
                         lines |-> <<<<"trace_http_data", chunk_len, FLT_NXT(strm),
                                       FLT_FWD(strm), avail, ret>>>>,
                         dump |-> <<>>]
    /\ UNCHANGED <<conf, strm, ist, cfg>>

(***************************************************************************)
(* trace_tcp_data(s, filter, chn), lines 607-625.                          *)
(***************************************************************************)
trace_tcp_data ==
    /\ Idle
    /\ ~strm.htx_strm
    /\ \E r \in RandomValues(ci_data(strm)) :
         LET avail == ci_data(strm) - FLT_NXT(strm)
             ret == ConsumeRet(conf, avail, r)
         IN  call' = [fn |-> "trace_tcp_data", offset |-> 0,
                      offered |-> avail, amount |-> ret, ret |-> ret,
                      wakeups |-> WakeupIf(ret # avail),
                      lines |-> <<<<"trace_tcp_data", FLT_NXT(strm), avail, ret>>>>,
                      dump |-> <<>>]
    /\ UNCHANGED <<conf, strm, ist, cfg>>

(***************************************************************************)
(* trace_http_forward_data(s, filter, msg, len), lines 576-602, and        *)
(* trace_tcp_forward_data(s, filter, chn, len), lines 627-651: len is at   *)
(* most what the filter has parsed and not forwarded yet.                  *)
(***************************************************************************)
ForwardBelow(c, len, r) ==
    IF len # 0 /\ c.rand_forwarding # 0 THEN RandomUpTo(r, len)
    ELSE IF len > 0 THEN len - 1 ELSE 0

ForwardRet(c, len, r) ==
    IF len # 0 /\ c.rand_forwarding # 0 THEN RandomUpTo(r, len) ELSE len

\* lines 592-596 and 642-646: the stream after the dump, and the texts dumped
ForwardDumpNoRewind(s, ret) ==
    {[strm |-> c_adv(s, FLT_FWD(s)), dump |-> d] :
        d \in trace_raw_hexdump(c_adv(s, FLT_FWD(s)).buf, ret,
                                co_data(c_adv(s, FLT_FWD(s))))}

ForwardDump(s, ret) ==
    {[strm |-> c_rew(c_adv(s, FLT_FWD(s)), FLT_FWD(s)), dump |-> d] :
        d \in trace_raw_hexdump(c_adv(s, FLT_FWD(s)).buf, ret,
                                co_data(c_adv(s, FLT_FWD(s))))}

trace_http_forward_data ==
    /\ Idle
    /\ ~strm.htx_strm
    /\ \E len \in 0..(FLT_NXT(strm) - FLT_FWD(strm)), r \in RandomValues(ci_data(strm)) :
         LET ret == ForwardRet(conf, len, r)
         IN  \E after \in IF conf.hexdump # 0 THEN ForwardDump(strm, ret)
                          ELSE {[strm |-> strm, dump |-> <<>>]} :
               /\ strm' = after.strm
               /\ call' = [fn |-> "trace_http_forward_data", offset |-> 0,
                           offered |-> len, amount |-> ret, ret |-> ret,
                           wakeups |-> WakeupIf(ret # len
                                        \/ FLT_NXT(strm) # FLT_FWD(strm) + ret),
                           lines |-> <<<<"trace_http_forward_data", len,
                                         FLT_NXT(strm), FLT_FWD(strm), ret>>>>,
                           dump |-> after.dump]
    /\ UNCHANGED <<conf, ist, cfg>>

trace_tcp_forward_data ==
    /\ Idle
    /\ ~strm.htx_strm
    /\ \E len \in 0..(FLT_NXT(strm) - FLT_FWD(strm)), r \in RandomValues(ci_data(strm)) :
         LET ret == ForwardRet(conf, len, r)
         IN  \E after \in IF conf.hexdump # 0 THEN ForwardDump(strm, ret)
                          ELSE {[strm |-> strm, dump |-> <<>>]} :
               /\ strm' = after.strm
               /\ call' = [fn |-> "trace_tcp_forward_data", offset |-> 0,
                           offered |-> len, amount |-> ret, ret |-> ret,
                           wakeups |-> WakeupIf(ret # len),
                           lines |-> <<<<"trace_tcp_forward_data", len,
                                         FLT_FWD(strm), ret>>>>,
                           dump |-> after.dump]
    /\ UNCHANGED <<conf, ist, cfg>>

(***************************************************************************)
(* trace_http_headers(s, filter, msg), lines 405-458.  It only writes      *)
(* lines: the start line, then one line per header.                        *)
(***************************************************************************)
\* lines 425-439: the blocks from position i to the end of the headers
RECURSIVE HtxHeaderLines(_, _)
HtxHeaderLines(htx, i) ==
    IF i > Len(htx) \/ htx[i].type = "EOH" THEN <<>>
    ELSE (IF htx[i].type = "HDR" THEN <<<<"\t", htx[i].n, htx[i].v>>>> ELSE <<>>)
         \o HtxHeaderLines(htx, i + 1)

\* the header index of a legacy message (struct hdr_idx): v[i] is entry i,
\* first_idx the first entry of the chain (0: none), first_pos its position
HdrIdxSamples ==
    {[first_idx |-> 0, first_pos |-> 0, v |-> <<>>],
     [first_idx |-> 2, first_pos |-> 3,
      v |-> <<[len |-> 80, cr |-> 1, next |-> 0], [len |-> 1, cr |-> 0, next |-> 1]>>]}

\* lines 450-455: the chain from entry cur_idx, the header starting at cur_hdr
RECURSIVE LegacyHeaderLines(_, _, _)
LegacyHeaderLines(idx, cur_idx, cur_hdr) ==
    IF cur_idx = 0 THEN <<>>
    ELSE <<<<"\t", Min(idx.v[cur_idx].len, 74), cur_hdr>>>>
         \o LegacyHeaderLines(idx, idx.v[cur_idx].next,
                              cur_hdr + idx.v[cur_idx].len + idx.v[cur_idx].cr + 1)

trace_http_headers ==
    /\ Idle
    /\ \/ /\ strm.htx_strm
          /\ strm.htx # <<>>
          /\ strm.htx[1].type = "SL"
          /\ call' = [NoCall EXCEPT
                        !.fn = "trace_http_headers",
                        !.lines = <<<<"trace_http_headers">>, <<"\t", strm.htx[1].v>>>>
                                  \o HtxHeaderLines(strm.htx, 1)]
       \/ /\ ~strm.htx_strm
          /\ \E l \in {0, 3, 80}, idx \in HdrIdxSamples :
               call' = [NoCall EXCEPT
                          !.fn = "trace_http_headers",
                          !.offset = l,
                          !.lines = <<<<"trace_http_headers">>,
                                      <<"\t", Min(l, 74), b_peek(strm.buf, co_data(strm))>>>>
                                    \o LegacyHeaderLines(idx, idx.first_idx,
                                          b_peek(strm.buf, co_data(strm)) + idx.first_pos)]
    /\ UNCHANGED <<conf, strm, ist, cfg>>

Next ==
    \/ trace_http_headers
    \/ trace_http_payload
    \/ trace_http_data
    \/ trace_http_forward_data
    \/ trace_tcp_data
    \/ trace_tcp_forward_data

Spec == Init /\ [][Next]_vars

(***************************************************************************)
(* SpecDump: trace_hexdump alone, on byte runs of up to MaxIstLen bytes.   *)
(***************************************************************************)
IstSamples ==
    {[k \in 1..n |-> AreaByte(k - 1)] : n \in 0..MaxIstLen}
    \cup {[k \in 1..n |-> 31 + k] : n \in 0..MaxIstLen}
    \cup {[k \in 1..n |-> (k * 37 + n) % 256] : n \in 0..MaxIstLen}
    \cup {[k \in 1..n |-> 124] : n \in 0..MaxIstLen}

InitDump ==
    /\ conf \in {c \in ConfSet : c.hexdump = 1 /\ c.rand_parsing = 0 /\ c.rand_forwarding = 0}
    /\ strm \in {x \in HtxStreams : x.htx = <<>>}
    /\ call = NoCall
    /\ ist \in IstSamples
    /\ cfg = NoCfg

call_trace_hexdump ==
    /\ Idle
    /\ call' = [NoCall EXCEPT !.fn = "trace_hexdump", !.offered = Len(ist),
                              !.dump = trace_hexdump(ist)]
    /\ UNCHANGED <<conf, strm, ist, cfg>>

NextDump == call_trace_hexdump

SpecDump == InitDump /\ [][NextDump]_vars

(***************************************************************************)
(* parse_trace_flt(args, cur_arg, px, fconf, err, private), lines 696-750. *)
(* args is the line's words, args[*cur_arg] the filter's keyword; past the *)
(* last word the array holds empty strings.  An allocation is a number:    *)
(* 0 for the trace_config, p for the copy of the word at position p.  A    *)
(* name of "" is a NULL pointer.                                           *)
(***************************************************************************)
Arg(args, i) == IF i + 1 <= Len(args) THEN args[i + 1] ELSE ""

\* calloc(1, sizeof(*conf)): all fields zero
ZeroConf ==
    [name |-> "", name_at |-> -1, rand_parsing |-> 0, rand_forwarding |-> 0, hexdump |-> 0]

\* the declaration before the parser runs
FreshFconf == [has_conf |-> FALSE, conf |-> ZeroConf, id |-> "", ops |-> ""]

\* the error exit, lines 745-749
ParseErrorKeepConf(c, live, msg) ==
    [ret |-> -1, pos |-> -1, conf |-> c, err |-> msg, live |-> live \ {c.name_at}]

ParseError(c, live, msg) ==
    [ret |-> -1, pos |-> -1, conf |-> c, err |-> msg,
     live |-> (IF c.name # "" THEN live \ {c.name_at} ELSE live) \ {0}]

\* the flags, lines 727-732
SetFlag(c, word) ==
    CASE word = "random-parsing" -> [c EXCEPT !.rand_parsing = 1]
      [] word = "random-forwarding" -> [c EXCEPT !.rand_forwarding = 1]
      [] word = "hexdump" -> [c EXCEPT !.hexdump = 1]

\* the loop of lines 713-736 from position pos; the <fail>-th strdup from
\* here fails (0: none does)
RECURSIVE ParseLoop(_, _, _, _, _, _)
ParseLoop(args, cur, pos, c, live, fail) ==
    IF Arg(args, pos) = "" THEN [ret |-> 0, pos |-> pos, conf |-> c, err |-> <<>>, live |-> live]
    ELSE IF Arg(args, pos) = "name"
    THEN IF Arg(args, pos + 1) = ""
         THEN ParseError(c, live, <<"'%s' : '%s' option without value",
                                    Arg(args, cur), Arg(args, pos)>>)
         ELSE IF fail = 1
         THEN ParseError([c EXCEPT !.name = "", !.name_at = -1], live,
                         <<"%s: out of memory", Arg(args, cur)>>)
         ELSE ParseLoop(args, cur, pos + 2,
                        [c EXCEPT !.name = Arg(args, pos + 1), !.name_at = pos + 1],
                        live \cup {pos + 1}, IF fail = 0 THEN 0 ELSE fail - 1)
    ELSE IF Arg(args, pos) \in {"random-parsing", "random-forwarding", "hexdump"}
    THEN ParseLoop(args, cur, pos + 1, SetFlag(c, Arg(args, pos)), live, fail)
    ELSE [ret |-> 0, pos |-> pos, conf |-> c, err |-> <<>>, live |-> live]

\* the whole function: what it returns and leaves behind
parse_trace_flt(args, cur, fconf, calloc_ok, fail) ==
    IF ~calloc_ok
    THEN [ret |-> -1, cur_arg |-> cur, fconf |-> fconf,
          err |-> <<"%s: out of memory", Arg(args, cur)>>, live |-> {}]
    ELSE IF Arg(args, cur) = "trace"
    THEN LET r == ParseLoop(args, cur, cur + 1, ZeroConf, {0}, fail)
         IN  IF r.ret = 0
             THEN [ret |-> 0, cur_arg |-> r.pos,
                   fconf |-> [has_conf |-> TRUE, conf |-> r.conf,
                              id |-> "trace filter", ops |-> "trace_ops"],
                   err |-> <<>>, live |-> r.live]
             ELSE [ret |-> -1, cur_arg |-> cur, fconf |-> fconf,
                   err |-> r.err, live |-> r.live]
    ELSE [ret |-> 0, cur_arg |-> cur,
          fconf |-> [fconf EXCEPT !.has_conf = TRUE, !.conf = ZeroConf],
          err |-> <<>>, live |-> {0}]

\* the words a declaration is made of
Words == {"name", "random-parsing", "random-forwarding", "hexdump", "demo", "if"}

ArgLines ==
    {<<"filter", "trace">> \o w : w \in UNION {[1..n -> Words] : n \in 0..MaxArgs}}

InitCfg ==
    /\ conf \in {c \in ConfSet : c.hexdump = 0 /\ c.rand_parsing = 0 /\ c.rand_forwarding = 0}
    /\ strm \in {x \in HtxStreams : x.htx = <<>>}
    /\ call = NoCall
    /\ ist = <<>>
    /\ cfg \in {[pc |-> "parse", args |-> a, kw |-> 1, cur_arg |-> 1,
                 fconf |-> FreshFconf, calloc_ok |-> TRUE, strdup_fail |-> 0,
                 err |-> <<>>, live |-> {}, ret |-> 0] : a \in ArgLines}

call_parse_trace_flt ==
    /\ cfg.pc = "parse"
    /\ \E calloc_ok \in BOOLEAN, fail \in 0..2 :
         LET r == parse_trace_flt(cfg.args, cfg.cur_arg, cfg.fconf, calloc_ok, fail)
         IN  cfg' = [pc |-> "done", args |-> cfg.args, kw |-> cfg.kw,
                     cur_arg |-> r.cur_arg, fconf |-> r.fconf,
                     calloc_ok |-> calloc_ok, strdup_fail |-> fail,
                     err |-> r.err, live |-> r.live, ret |-> r.ret]
    /\ UNCHANGED <<conf, strm, call, ist>>

NextCfg == call_parse_trace_flt

SpecCfg == InitCfg /\ [][NextCfg]_vars

(***************************************************************************)
(* Properties of the hooks (specification Spec).                           *)
(***************************************************************************)
ForwardHooks == {"trace_http_payload", "trace_http_forward_data", "trace_tcp_forward_data"}

ParsingHooks == {"trace_http_data", "trace_tcp_data"}

\* the call was one whose count the configuration randomizes
Randomized ==
    \/ call.fn \in ForwardHooks /\ conf.rand_forwarding # 0
    \/ call.fn \in ParsingHooks /\ conf.rand_parsing # 0

\* C1: with the randomization of its phase off, a data hook returns exactly
\* the amount it was offered: len for trace_http_payload,
\* trace_http_forward_data and trace_tcp_forward_data, avail for
\* trace_http_data and trace_tcp_data.
C1_FullWhenNotRandomized ==
    /\ (call.fn \in ForwardHooks /\ conf.rand_forwarding = 0) => call.ret = call.offered
    /\ (call.fn \in ParsingHooks /\ conf.rand_parsing = 0) => call.ret = call.offered

C1_Witness ==
    /\ call.fn = "trace_http_forward_data"
    /\ conf.rand_forwarding = 0
    /\ conf.rand_parsing = 1
    /\ call.offered >= 2
    /\ call.ret = call.offered

\* C2: with the randomization on, the count a data hook returns lies in
\* 0..available, and for every amount the hook can be offered on the stream
\* some value of random() makes it return 0 and some makes it return the
\* whole amount.
C2_InRange == (call.fn \in ForwardHooks \cup ParsingHooks /\ Randomized)
                  => call.ret \in 0..call.offered

C2_BothEndsReturned ==
    Idle =>
    /\ (~strm.htx_strm /\ conf.rand_parsing # 0) =>
          \A avail \in 0..(ci_data(strm) - FLT_NXT(strm)) :
              {0, avail} \subseteq {ConsumeRet(conf, avail, r) : r \in RandomValues(avail)}
    /\ (~strm.htx_strm /\ conf.rand_forwarding # 0) =>
          \A len \in 0..(FLT_NXT(strm) - FLT_FWD(strm)) :
              {0, len} \subseteq {ForwardRet(conf, len, r) : r \in RandomValues(len)}
    /\ (strm.htx_strm /\ conf.rand_forwarding # 0) =>
          \A offset \in 0..HtxSize(strm.htx) :
              \A len \in 0..(HtxSize(strm.htx) - offset) :
                  {0, len} \subseteq {HttpPayloadRet(conf, strm.htx, offset, len, r) :
                                         r \in RandomValues(len)}

C2_RandomizedWithinAvailable == C2_InRange /\ C2_BothEndsReturned

C2_Witness ==
    /\ call.fn = "trace_http_data"
    /\ conf.rand_parsing # 0
    /\ call.offered >= 2
    /\ call.ret = 0

\* C5: a data hook that returns less than it was offered has called
\* task_wakeup on the stream's task exactly once when it returns.
C5_WakeupOnShortReturn ==
    (call.fn \in ForwardHooks \cup ParsingHooks /\ call.ret < call.offered)
        => call.wakeups = 1

C5_Witness ==
    /\ call.fn = "trace_tcp_forward_data"
    /\ call.ret < call.offered
    /\ call.ret > 0
    /\ call.wakeups = 1

\* C9: no hook changes what it observes: across every call the channel's
\* buffer (bytes, head, data), its output offset, the filter's next and
\* forward offsets, the message blocks and the configuration are what they
\* were, the c_adv done for the dump being undone by c_rew.
C9_HooksLeaveStateUnchanged == [][strm' = strm /\ conf' = conf]_vars

C9_Witness ==
    /\ call.fn = "trace_tcp_forward_data"
    /\ conf.hexdump # 0
    /\ FLT_FWD(strm) > 0
    /\ call.ret > 0
    /\ call.dump # <<>>

\* C11: task_wakeup is called only for an incomplete step.  trace_http_payload,
\* trace_http_data, trace_tcp_data and trace_tcp_forward_data call it once if
\* the count returned differs from the len/avail offered and not at all if
\* it equals it; trace_http_forward_data calls it once if the count differs
\* from len or the filter's next offset differs from its forward offset plus
\* the count, and not at all otherwise.
C11_WakeupIffIncomplete ==
    /\ call.fn \in {"trace_http_payload", "trace_http_data", "trace_tcp_data",
                    "trace_tcp_forward_data"}
          => call.wakeups = IF call.ret # call.offered THEN 1 ELSE 0
    /\ call.fn = "trace_http_forward_data"
          => call.wakeups = IF \/ call.ret # call.offered
                               \/ FLT_NXT(strm) # FLT_FWD(strm) + call.ret
                            THEN 1 ELSE 0

\* trace_http_forward_data forwards all it was offered and still wakes the
\* task up, the filter having parsed more than that
C11_Witness ==
    /\ call.fn = "trace_http_forward_data"
    /\ call.offered > 0
    /\ call.ret = call.offered
    /\ FLT_NXT(strm) > FLT_FWD(strm) + call.ret
    /\ call.wakeups = 1

(***************************************************************************)
(* The structured message byte by byte: the type of the block each byte of *)
(* the message belongs to, and the payload bytes of a window of it.        *)
(***************************************************************************)
RECURSIVE ByteTypes(_)
ByteTypes(htx) ==
    IF htx = <<>> THEN <<>>
    ELSE [k \in 1..htx_get_blksz(Head(htx)) |-> Head(htx).type] \o ByteTypes(Tail(htx))

\* the number of bytes of DATA blocks among bytes offset .. offset+len-1
DataBytesInWindow(htx, offset, len) ==
    Cardinality({k \in (offset + 1)..(offset + len) :
                    k <= Len(ByteTypes(htx)) /\ ByteTypes(htx)[k] = "DATA"})

\* the payload of the message, block by block
RECURSIVE PayloadOf(_)
PayloadOf(htx) ==
    IF htx = <<>> THEN <<>>
    ELSE (IF Head(htx).type = "DATA" THEN <<Head(htx).v>> ELSE <<>>) \o PayloadOf(Tail(htx))

\* the runs of payload bytes offset .. offset+len-1 of the payload, one run
\* per DATA block that holds some of them
RECURSIVE SliceRuns(_, _, _)
SliceRuns(blocks, offset, len) ==
    IF blocks = <<>> \/ len = 0 THEN <<>>
    ELSE IF offset >= Len(Head(blocks))
    THEN SliceRuns(Tail(blocks), offset - Len(Head(blocks)), len)
    ELSE LET n == Min(Len(Head(blocks)) - offset, len)
         IN  <<SubSeq(Head(blocks), offset + 1, offset + n)>>
             \o SliceRuns(Tail(blocks), 0, len - n)

\* the number of payload bytes among payload bytes offset .. offset+len-1
PayloadBytesIn(htx, offset, len) == Len(Flatten(SliceRuns(PayloadOf(htx), offset, len)))

RECURSIVE DumpOfRuns(_)
DumpOfRuns(runs) ==
    IF runs = <<>> THEN <<>> ELSE trace_hexdump(Head(runs)) \o DumpOfRuns(Tail(runs))

C4_CapByPayloadPresent ==
    (call.fn = "trace_http_payload" /\ conf.rand_forwarding # 0 /\ call.offered > 0)
        => call.ret = IF PayloadBytesIn(strm.htx, call.offset, call.amount) < call.amount
                      THEN call.offered
                      ELSE call.amount

\* C6 as stated: the forward hooks' dump is the dump of the ret bytes that
\* follow the filter's forward offset in the channel's input, unwrapped.
LogicalBytes(b, out, len) ==
    [k \in 1..len |-> b.area[((b.head + out + k - 1) % b_size(b)) + 1]]

C6_DumpsForwardedWindow ==
    (call.fn \in {"trace_http_forward_data", "trace_tcp_forward_data"} /\ conf.hexdump # 0)
        => call.dump = trace_hexdump(LogicalBytes(strm.buf, co_data(strm) + FLT_FWD(strm),
                                                  call.ret))

\* C7 as stated: the dump of trace_http_payload is that of the payload bytes
\* offset .. offset+len-1, run by run, blocks other than DATA taking nothing
\* of len.
C7_DumpsPayloadWindow ==
    (call.fn = "trace_http_payload" /\ conf.hexdump # 0)
        => call.dump = DumpOfRuns(SliceRuns(PayloadOf(strm.htx), call.offset, call.offered))

(***************************************************************************)
(* Properties of trace_hexdump (specification SpecDump).  A row of the     *)
(* dump is: a tab, "0x", the offset of its first byte as six hex digits,   *)
(* ": ", eight cells, two blanks, eight cells, "  |", the ASCII column,    *)
(* "|" and a newline; a cell is three characters.                          *)
(***************************************************************************)
HexChars == <<48, 49, 50, 51, 52, 53, 54, 55, 56, 57, 97, 98, 99, 100, 101, 102>>

\* the text from position from+1 on, n characters of it
TextAt(text, from, n) == SubSeq(text, from + 1, from + n)

\* where cell c (0..15) starts in its row, after the row's eleven-character
\* lead, the blanks between the two halves counted
CellStart(c) == 11 + 3 * c + (IF c >= 8 THEN 2 ELSE 0)

\* row r (from 0) of the dump of the bytes p starts at <base> of <text>
RowIsWellFormed(p, text, r, base) ==
    LET present == Min(16, Len(p) - 16 * r)
    IN  /\ TextAt(text, base, 3) = <<9, 48, 120>>
        /\ TextAt(text, base + 9, 2) = <<58, 32>>
        /\ \A c \in 0..15 :
              TextAt(text, base + CellStart(c), 3) =
                  IF c < present
                  THEN <<HexChars[(p[16 * r + c + 1] \div 16) + 1],
                         HexChars[(p[16 * r + c + 1] % 16) + 1], 32>>
                  ELSE <<32, 32, 32>>
        /\ TextAt(text, base + CellStart(8) - 2, 2) = <<32, 32>>
        /\ TextAt(text, base + CellStart(15) + 3, 3) = <<32, 32, 124>>
        /\ \A c \in 0..(present - 1) :
              text[base + CellStart(15) + 6 + c + 1] =
                  IF p[16 * r + c + 1] \in 32..126 THEN p[16 * r + c + 1] ELSE 46
        /\ TextAt(text, base + CellStart(15) + 6 + present, 2) = <<124, 10>>

\* C8: the dump of n bytes is ceil(n/16) rows and nothing else (no row for
\* n = 0); each row has sixteen cells, a byte present shown as its two hex
\* digits and the cells past the last byte blank, two more blanks before
\* the ninth cell; its ASCII column has one character per byte present in
\* the row, the byte if it is printable and '.' if not.
C8_RowsOfSixteenCells ==
    call.fn = "trace_hexdump" =>
        LET n == Len(ist)
            rows == (n + 15) \div 16
        IN  /\ Len(call.dump) = 66 * rows + n
            /\ \A r \in 0..(rows - 1) : RowIsWellFormed(ist, call.dump, r, 82 * r)

C8_Witness ==
    /\ call.fn = "trace_hexdump"
    /\ Len(ist) = 27
    /\ \E k \in 17..27 : ~(ist[k] \in 32..126)
    /\ \E k \in 17..27 : ist[k] \in 32..126
    /\ Len(call.dump) = 2 * 66 + 27

(***************************************************************************)
(* Properties of parse_trace_flt (specification SpecCfg).  The declaration *)
(* reads: after the keyword, options; an option is a flag, or "name" and   *)
(* the word after it, its value.  cfg.kw is where the keyword is.          *)
(***************************************************************************)
FlagWords == {"random-parsing", "random-forwarding", "hexdump"}

\* the word at position p is the value of a "name" option
RECURSIVE IsValue(_, _, _)
IsValue(args, kw, p) ==
    /\ p > kw + 1
    /\ Arg(args, p - 1) = "name"
    /\ ~IsValue(args, kw, p - 1)

\* the options end at the first word that is no value and no option, or
\* that is "name" with nothing after it
EndsOptions(args, kw, p) ==
    /\ ~IsValue(args, kw, p)
    /\ \/ Arg(args, p) \notin FlagWords \cup {"name"}
       \/ Arg(args, p) = "name" /\ Arg(args, p + 1) = ""

OptionsEnd(args, kw) ==
    CHOOSE p \in (kw + 1)..(Len(args) + 1) :
        /\ EndsOptions(args, kw, p)
        /\ \A q \in (kw + 1)..(p - 1) : ~EndsOptions(args, kw, q)

\* the positions of the values given to "name" among the options
ValuePositions(args, kw) ==
    {p \in (kw + 1)..(OptionsEnd(args, kw) - 1) : IsValue(args, kw, p)}

\* the flag <word> is among the options
FlagGiven(args, kw, word) ==
    \E p \in (kw + 1)..(OptionsEnd(args, kw) - 1) :
        ~IsValue(args, kw, p) /\ Arg(args, p) = word

NameValueMissing(args, kw) == Arg(args, OptionsEnd(args, kw)) = "name"

\* an allocation of the call fails: the calloc, or a strdup it gets to
AllocationFails ==
    \/ ~cfg.calloc_ok
    \/ cfg.strdup_fail > 0
       /\ Cardinality(ValuePositions(cfg.args, cfg.kw)) >= cfg.strdup_fail

LastOf(S) == CHOOSE p \in S : \A q \in S : q <= p

InRange(word, q) == \E i \in 1..Len(q) : q[i] = word

=============================================================================
